---- MODULE Spec2Model ----
(***************************************************************************)
(* Pastebin paste store (src/db.js, src/unnamed/part_000) as a state       *)
(* machine.  The repository carries three variants of the store:           *)
(*   "pg"      Postgres through a connection pool    (db.js 31-111)        *)
(*   "sqlite3" node-sqlite3, one shared connection   (db.js 112-221)       *)
(*   "better"  better-sqlite3, synchronous calls     (part_000 129-241)    *)
(* `backend` is fixed in Init; every operation is modelled per variant.    *)
(* One SQL statement is one atomic step.  On the shared sqlite3 connection *)
(* every statement of every caller runs in the connection's current        *)
(* transaction; a Postgres transaction has its own pooled client and row   *)
(* locks; better-sqlite3 calls run to completion without yielding.         *)
(***************************************************************************)
EXTENDS Integers, Sequences, FiniteSets, TLC

\* ---- bounds of the model
MaxIds == 1
MaxCalls == 2
MaxViews == 2
MaxTtl == 1
MaxSec == 1
MaxWall == 0
MaxCreates == 1
MaxFaults == 1
\* the traced runs (SpecTraced, SpecMulti)
MaxClock == 1
MaxMultiIds == 2
MaxLimit == 2

\* ---- program constants: ttl_seconds * 1000, and the default of ?limit=
MsPerSec == 1000
DefaultLimit == 100

Backends == {"pg", "sqlite3", "better"}
Ids == 1..MaxIds
Calls == 1..MaxCalls

\* a content string is its sequence of characters, by code point: U+0000,
\* the space (which trim() strips) and letters
NulChar == 0
Space == 32
Letter == 97
Hello == <<104, 101, 108, 108, 111>>
Contents == {Hello}

\* ---- JS / SQL values, tagged by type
Null == [t |-> "null", v |-> 0]
Undefined == [t |-> "undefined", v |-> 0]
Num(n) == [t |-> "number", v |-> n]
Str(s) == [t |-> "string", v |-> s]
IsNull(x) == x.t = "null"
IsNum(x) == x.t = "number"

\* a table slot or a query result: <<>> when there is no row, <<row>> otherwise
NoRow == <<>>
Has(r) == Len(r) = 1

\* what a call has returned to its caller
Pending == [kind |-> "pending"]
NotAvailable == [kind |-> "null"]
Err == [kind |-> "error"]

\* Date.now() readings (ms) at creation, and the logical times (ms) a caller
\* of fetchPasteWithView supplies: around every whole second
WallTimes == 0..MaxWall
Nows == {s * MsPerSec + d : s \in 1..MaxSec, d \in {-1, 0, 1}}
Ttls == {Undefined} \cup {Num(n) : n \in 1..MaxTtl}
Views == {Undefined} \cup {Num(n) : n \in 0..MaxViews}

Min(a, b) == IF a <= b THEN a ELSE b

\* JS truthiness: 0, null, undefined and "" are falsy
Truthy(x) ==
    \/ x.t = "number" /\ x.v # 0
    \/ x.t = "string" /\ Len(x.v) > 0

\* decimal digits of a natural number: node-postgres hands a BIGINT column
\* to JS as a decimal string; parseInt(s, 10) reads it back
RECURSIVE Digits(_)
Digits(n) == IF n < 10 THEN <<n>> ELSE Append(Digits(n \div 10), n % 10)

RECURSIVE ParseInt(_)
ParseInt(s) ==
    IF Len(s) = 1 THEN s[1]
    ELSE ParseInt(SubSeq(s, 1, Len(s) - 1)) * 10 + s[Len(s)]

PgBigint(x) == IF IsNum(x) THEN Str(Digits(x.v)) ELSE x

VARIABLES
    backend,    \* which variant of db.js runs
    store,      \* the pastes table as statements on the connection see it
    durable,    \* the committed pastes table
    txnOwner,   \* sqlite3: the call whose BEGIN opened the connection's transaction, 0 if none
    calls,      \* the fetchPasteWithView calls, by slot
    faults,     \* statement failures injected so far
    created,    \* history: per id, the number of successful creates
    life,       \* history: per id, what the last create or delete told its caller:
                \* "never" (no create yet), "live" (created), "deleted" (delete returned true)
    orig,       \* history: per id, the row its create wrote, while the paste is "live"
    statsParity, \* history: flips at every getPasteStats call
    lastOp      \* history (SpecMulti): the last request, its inputs and what its caller got

vars == <<backend, store, durable, txnOwner, calls, faults, created, life, orig, statsParity, lastOp>>

\* a call slot.  pc: the statement the call issues next.  row: the row object
\* its SELECT returned.  res: what the caller got.  pend: the outcome the call
\* delivers once its ROLLBACK has run.  locked: pg, the call's transaction
\* holds the row lock.  History: why (the reason for NotAvailable), fault (a
\* statement of the call failed), fresh (the call started on a paste created
\* once and never deleted), late (it started after a call on the id had
\* returned remaining_views = 0), afterNA (it started after a call on the id
\* had returned NotAvailable for expiry or exhaustion), old (the id was
\* created after the call started).
IdleCall == [pc |-> "idle", id |-> 0, now |-> 0, row |-> NoRow, res |-> Pending,
             pend |-> Pending, why |-> "none", locked |-> FALSE,
             fault |-> FALSE, fresh |-> FALSE, late |-> FALSE, afterNA |-> FALSE,
             old |-> FALSE]

\* the inputs of a request, as lastOp keeps them
NoArgs == [content |-> Undefined, ttl |-> Undefined, mv |-> Undefined, t |-> 0, t2 |-> 0,
           hdr |-> Undefined, limit |-> Undefined]
NoOp == [op |-> "none", id |-> 0, ret |-> "none", args |-> NoArgs]

Init ==
    /\ lastOp = NoOp
    /\ backend \in Backends
    /\ store = [i \in Ids |-> NoRow]
    /\ durable = [i \in Ids |-> NoRow]
    /\ txnOwner = 0
    /\ calls = [c \in Calls |-> IdleCall]
    /\ faults = 0
    /\ created = [i \in Ids |-> 0]
    /\ life = [i \in Ids |-> "never"]
    /\ orig = [i \in Ids |-> NoRow]
    /\ statsParity = FALSE

\* a statement may fail (I/O error, busy, lost connection) while the budget lasts
CanFail == faults < MaxFaults

\* ---------------------------------------------------------------- createPaste
\* expires_at as createPaste computes it: ttl_seconds ? t + ttl_seconds * 1000 : null
ExpiresAt(t, ttl) == IF Truthy(ttl) THEN Num(t + ttl.v * MsPerSec) ELSE Null

\* sqlite3 and pg variants: typeof max_views === 'number' ? max_views : null
RemainingViewsTypeof(mv) == IF mv.t = "number" THEN mv ELSE Null

\* better-sqlite3 variant: max_views ?? null
RemainingViewsCoalesce(mv) == IF mv.t \in {"undefined", "null"} THEN Null ELSE mv

\* the row createPaste inserts; t is the Date.now() that dates expires_at, t2
\* the one that dates created_at (the better-sqlite3 variant reads the clock
\* twice, the others once)
NewRow(content, ttl, mv, t, t2) ==
    IF backend = "better"
    THEN [content |-> content, created_at |-> t2,
          expires_at |-> ExpiresAt(t, ttl),
          remaining_views |-> RemainingViewsCoalesce(mv)]
    ELSE [content |-> content, created_at |-> t,
          expires_at |-> ExpiresAt(t, ttl),
          remaining_views |-> RemainingViewsTypeof(mv)]

\* a write statement outside fetchPasteWithView: autocommitted, unless the
\* shared sqlite3 connection has a transaction open, which it then joins
WriteThrough(newStore) ==
    /\ store' = newStore
    /\ durable' = IF backend = "sqlite3" /\ txnOwner # 0 THEN durable ELSE newStore

\* Postgres: the calls whose open transaction holds the row lock of id i
LockHolder(i) == {c \in Calls : calls[c].locked /\ calls[c].id = i}

\* history: a successful create of id i starts a new paste; the calls issued
\* so far on that id were about an earlier one
Renew(i) ==
    [c \in Calls |-> IF calls[c].id = i THEN [calls[c] EXCEPT !.old = TRUE] ELSE calls[c]]

\* Postgres: a TEXT value cannot hold U+0000; the INSERT is refused with
\* "invalid byte sequence for encoding UTF8: 0x00".  SQLite stores it.
TextRefused(content) ==
    backend = "pg" /\ \E k \in 1..Len(content) : content[k] = NulChar

\* mutant of CreatePaste: INSERT OR REPLACE, the key is not checked
CreatePasteReplace(i, content, ttl, mv, t, t2) ==
    /\ IF backend = "better" THEN t2 >= t ELSE t2 = t
    /\ created[i] <= MaxCreates
    /\ created' = [created EXCEPT ![i] = @ + 1]
    /\ WriteThrough([store EXCEPT ![i] = <<NewRow(content, ttl, mv, t, t2)>>])
    /\ life' = [life EXCEPT ![i] = "live"]
    /\ orig' = [orig EXCEPT ![i] = <<NewRow(content, ttl, mv, t, t2)>>]
    /\ calls' = Renew(i)
    /\ UNCHANGED <<faults, backend, txnOwner, statsParity>>

CreatePaste(i, content, ttl, mv, t, t2) ==
    /\ IF backend = "better" THEN t2 >= t ELSE t2 = t
    /\ \/ \* INSERT fails: the id is taken (PRIMARY KEY)
          /\ Has(store[i])
          /\ UNCHANGED <<store, durable, faults, created, life, orig, calls>>
       \/ \* INSERT fails: the server refuses the content
          /\ ~Has(store[i])
          /\ TextRefused(content)
          /\ UNCHANGED <<store, durable, faults, created, life, orig, calls>>
       \/ \* INSERT fails for another reason
          /\ ~Has(store[i])
          /\ CanFail
          /\ faults' = faults + 1
          /\ UNCHANGED <<store, durable, created, life, orig, calls>>
       \/ /\ ~Has(store[i])
          /\ ~TextRefused(content)
          /\ created[i] < MaxCreates
          /\ created' = [created EXCEPT ![i] = @ + 1]
          /\ WriteThrough([store EXCEPT ![i] = <<NewRow(content, ttl, mv, t, t2)>>])
          /\ life' = [life EXCEPT ![i] = "live"]
          /\ orig' = [orig EXCEPT ![i] = <<NewRow(content, ttl, mv, t, t2)>>]
          /\ calls' = Renew(i)
          /\ UNCHANGED faults
    /\ UNCHANGED <<backend, txnOwner, statsParity>>

\* ---------------------------------------------------------------- deletePaste
\* resolves this.changes > 0 / res.rowCount > 0
DeleteResult(i) == Has(store[i])

\* mutant of DeletePaste: a soft delete, the row stays with its content blanked
DeletePasteBlanking(i) ==
    /\ Has(store[i])
    /\ WriteThrough([store EXCEPT ![i] = <<[@[1] EXCEPT !.content = <<>>]>>])
    /\ UNCHANGED <<backend, txnOwner, calls, faults, created, life, orig, statsParity>>

DeletePaste(i) ==
    /\ backend = "pg" => LockHolder(i) = {}
    /\ \/ /\ CanFail
          /\ faults' = faults + 1
          /\ UNCHANGED <<store, durable, life>>
          /\ UNCHANGED <<calls, orig>>
       \/ /\ WriteThrough([store EXCEPT ![i] = NoRow])
          /\ life' = [life EXCEPT ![i] = IF DeleteResult(i) THEN "deleted" ELSE @]
          /\ orig' = [orig EXCEPT ![i] = IF DeleteResult(i) THEN NoRow ELSE @]
          /\ UNCHANGED calls
          /\ UNCHANGED faults
    /\ UNCHANGED <<backend, txnOwner, created, statsParity>>

\* ---------------------------------------------------------------- view budget
Limited(row) == ~IsNull(row.remaining_views)

\* mutant of Decrement: a view costs two
DecrementByTwo(row) == [row EXCEPT !.remaining_views = Num(@.v - 2)]

\* newVal = row.remaining_views - 1
Decrement(row) == [row EXCEPT !.remaining_views = Num(@.v - 1)]

\* mutant of Exhausted: the test lets a counter of 0 through
ExhaustedOffByOne(row) == Limited(row) /\ row.remaining_views.v < 0

\* the view-limit test, the same in the three variants:
\* remaining_views !== null, then remaining_views <= 0
Exhausted(row) == Limited(row) /\ row.remaining_views.v <= 0

\* ---------------------------------------------------------------- getPasteStats
\* the columns the stats and list queries select
Meta(i, r) ==
    [id |-> i, created_at |-> r.created_at, expires_at |-> r.expires_at,
     remaining_views |-> r.remaining_views, content_length |-> Len(r.content)]

\* resolve(row || null)
StatsResult(i) ==
    IF Has(store[i]) THEN [kind |-> "meta", meta |-> Meta(i, store[i][1])] ELSE NotAvailable

\* mutant of GetPasteStats: the stats query counts as a view
GetPasteStatsCounting(i) ==
    /\ Has(store[i]) /\ Limited(store[i][1])
    /\ WriteThrough([store EXCEPT ![i] = <<Decrement(@[1])>>])
    /\ statsParity' = ~statsParity
    /\ UNCHANGED <<backend, txnOwner, calls, faults, created, life, orig>>

GetPasteStats(i) ==
    /\ \/ /\ CanFail
          /\ faults' = faults + 1
       \/ UNCHANGED faults
    /\ statsParity' = ~statsParity
    /\ UNCHANGED <<backend, store, durable, txnOwner, calls, created, life, orig>>

\* ---------------------------------------------------------------- listAllPastes
\* ORDER BY created_at DESC: the orders in which the query may return the ids
\* of the stored rows (rows of equal created_at come in any order)
\* mutant of ListResults: ORDER BY created_at ASC
ListResultsAscending ==
    LET present == {i \in DOMAIN store : Has(store[i])}
    IN {s \in [1..Cardinality(present) -> present] :
          \A j, k \in 1..Cardinality(present) :
             j < k => /\ s[j] # s[k]
                      /\ store[s[j]][1].created_at <= store[s[k]][1].created_at}

ListResults ==
    LET present == {i \in DOMAIN store : Has(store[i])}
    IN {s \in [1..Cardinality(present) -> present] :
          \A j, k \in 1..Cardinality(present) :
             j < k => /\ s[j] # s[k]
                      /\ store[s[j]][1].created_at >= store[s[k]][1].created_at}

ListAllPastes ==
    /\ \/ /\ CanFail
          /\ faults' = faults + 1
       \/ /\ ListResults # {}
          /\ UNCHANGED faults
    /\ UNCHANGED <<backend, store, durable, txnOwner, calls, created, life, orig, statsParity>>

\* ---------------------------------------------------------------- fetchPasteWithView
\* the object the caller receives (the fields the API handler reads)
PasteResult(row) ==
    [kind |-> "paste", content |-> row.content,
     remaining_views |-> row.remaining_views, expires_at |-> row.expires_at]

\* mutant of Unavailable: a paste that exists but cannot be served is told
\* apart from an id that has no record
UnavailableTelling(why) ==
    IF why = "absent" THEN NotAvailable ELSE [kind |-> "null", gone |-> TRUE]

\* what a call that serves no paste resolves: null, whether the row is
\* missing, expired or view-exhausted
Unavailable(why) == NotAvailable

ReturnedZero(c) ==
    /\ calls[c].res.kind = "paste"
    /\ IsNum(calls[c].res.remaining_views)
    /\ calls[c].res.remaining_views.v = 0

TurnedAway(c) ==
    /\ calls[c].res.kind = "null"
    /\ calls[c].why \in {"expired", "exhausted"}

\* a call slot as fetchPasteWithView(i, now) is entered
Started(i, now) ==
    [IdleCall EXCEPT !.id = i, !.now = now,
                     !.fresh = (life[i] = "live"),
                     !.late = \E d \in Calls : calls[d].id = i /\ ~calls[d].old /\ ReturnedZero(d),
                     !.afterNA = \E d \in Calls : calls[d].id = i /\ ~calls[d].old /\ TurnedAway(d)]

\* slots are taken in order
CanStart(c) ==
    /\ calls[c].pc = "idle"
    /\ \A d \in Calls : d < c => calls[d].pc # "idle"

\* the expiry test of each variant
ExpiredSqlite(row, now) == Truthy(row.expires_at) /\ now >= row.expires_at.v
ExpiredPg(row, now) == Truthy(row.expires_at) /\ now >= ParseInt(row.expires_at.v)
ExpiredBetter(row, now) == Truthy(row.expires_at) /\ row.expires_at.v < now


\* ---- better-sqlite3 variant: synchronous statements, no await between them
FetchBetter(c, i, now) ==
    /\ backend = "better"
    /\ CanStart(c)
    /\ LET st == Started(i, now)
           done(r, w) == [st EXCEPT !.pc = "done", !.res = r, !.why = w, !.row = store[i]]
           gone(w) == done(Unavailable(w), w)
       IN \/ \* a statement throws: the async function rejects
             /\ CanFail
             /\ faults' = faults + 1
             /\ calls' = [calls EXCEPT ![c] = [done(Err, "none") EXCEPT !.fault = TRUE]]
             /\ UNCHANGED <<store, durable>>
          \/ /\ UNCHANGED faults
             /\ IF ~Has(store[i])
                THEN /\ calls' = [calls EXCEPT ![c] = gone("absent")]
                     /\ UNCHANGED <<store, durable>>
                ELSE LET paste == store[i][1] IN
                     IF ExpiredBetter(paste, now)
                     THEN /\ WriteThrough([store EXCEPT ![i] = NoRow])
                          /\ calls' = [calls EXCEPT ![c] = gone("expired")]
                     ELSE IF Exhausted(paste)
                     THEN /\ calls' = [calls EXCEPT ![c] = gone("exhausted")]
                          /\ UNCHANGED <<store, durable>>
                     ELSE IF Limited(paste)
                     THEN /\ WriteThrough([store EXCEPT ![i] = <<Decrement(paste)>>])
                          /\ calls' = [calls EXCEPT ![c] = done(PasteResult(Decrement(paste)), "none")]
                     ELSE /\ calls' = [calls EXCEPT ![c] = done(PasteResult(paste), "none")]
                          /\ UNCHANGED <<store, durable>>
    /\ UNCHANGED <<backend, txnOwner, created, life, orig, statsParity>>

\* ---- sqlite3 variant: callbacks chained on the one shared connection
\* fetchPasteWithView is entered and its BEGIN TRANSACTION runs
SqliteBegin(c, i, now) ==
    /\ backend = "sqlite3"
    /\ CanStart(c)
    /\ LET st == Started(i, now) IN
       \/ \* "cannot start a transaction within a transaction": reject(err)
          /\ txnOwner # 0
          /\ calls' = [calls EXCEPT ![c] = [st EXCEPT !.pc = "done", !.res = Err, !.fault = TRUE]]
          /\ UNCHANGED <<txnOwner, faults>>
       \/ /\ txnOwner = 0
          /\ CanFail
          /\ faults' = faults + 1
          /\ calls' = [calls EXCEPT ![c] = [st EXCEPT !.pc = "done", !.res = Err, !.fault = TRUE]]
          /\ UNCHANGED txnOwner
       \/ /\ txnOwner = 0
          /\ txnOwner' = c
          /\ calls' = [calls EXCEPT ![c] = [st EXCEPT !.pc = "select"]]
          /\ UNCHANGED faults
    /\ UNCHANGED <<backend, store, durable, created, life, orig, statsParity>>

\* the SELECT runs and its callback picks the next statement
SqliteSelect(c) ==
    /\ backend = "sqlite3"
    /\ calls[c].pc = "select"
    /\ LET i == calls[c].id
           now == calls[c].now
           rollback(w) == [calls[c] EXCEPT !.pc = "rollback", !.pend = Unavailable(w),
                                           !.why = w, !.row = store[i]]
       IN \/ \* db.run('ROLLBACK'); return reject(err)
             /\ CanFail
             /\ faults' = faults + 1
             /\ calls' = [calls EXCEPT ![c] = [@ EXCEPT !.pc = "rollback", !.res = Err, !.fault = TRUE]]
          \/ /\ UNCHANGED faults
             /\ calls' = [calls EXCEPT ![c] =
                   IF ~Has(store[i]) THEN rollback("absent")
                   ELSE LET row == store[i][1] IN
                        IF ExpiredSqlite(row, now) THEN rollback("expired")
                        ELSE IF Exhausted(row) THEN rollback("exhausted")
                        ELSE IF Limited(row) THEN [@ EXCEPT !.pc = "update", !.row = <<row>>]
                        ELSE [@ EXCEPT !.pc = "commit", !.row = <<row>>]]
    /\ UNCHANGED <<backend, store, durable, txnOwner, created, life, orig, statsParity>>

\* UPDATE pastes SET remaining_views = newVal WHERE id = ?
SqliteUpdate(c) ==
    /\ backend = "sqlite3"
    /\ calls[c].pc = "update"
    /\ LET i == calls[c].id
           newRow == Decrement(calls[c].row[1])
       IN \/ /\ CanFail
             /\ faults' = faults + 1
             /\ calls' = [calls EXCEPT ![c] = [@ EXCEPT !.pc = "rollback", !.res = Err, !.fault = TRUE]]
             /\ UNCHANGED store
          \/ /\ UNCHANGED faults
             /\ store' = IF Has(store[i])
                         THEN [store EXCEPT ![i] = <<[@[1] EXCEPT !.remaining_views = newRow.remaining_views]>>]
                         ELSE store
             /\ calls' = [calls EXCEPT ![c] = [@ EXCEPT !.pc = "commit", !.row = <<newRow>>]]
    /\ UNCHANGED <<backend, durable, txnOwner, created, life, orig, statsParity>>

\* db.run('COMMIT', () => resolve(row)): the callback ignores its error argument.
\* A failed COMMIT either leaves the transaction open (SQLITE_BUSY) or has
\* rolled it back (SQLITE_FULL, SQLITE_IOERR)
SqliteCommit(c) ==
    /\ backend = "sqlite3"
    /\ calls[c].pc = "commit"
    /\ \/ /\ CanFail
          /\ faults' = faults + 1
          /\ calls' = [calls EXCEPT ![c] = [@ EXCEPT !.pc = "done", !.fault = TRUE,
                                                     !.res = PasteResult(calls[c].row[1])]]
          /\ \/ UNCHANGED <<store, durable, txnOwner>>
             \/ /\ store' = durable
                /\ txnOwner' = 0
                /\ UNCHANGED durable
       \/ /\ UNCHANGED faults
          /\ calls' = [calls EXCEPT ![c] = [@ EXCEPT !.pc = "done", !.res = PasteResult(calls[c].row[1])]]
          /\ durable' = store
          /\ txnOwner' = 0
          /\ UNCHANGED store
    /\ UNCHANGED <<backend, created, life, orig, statsParity>>

\* the ROLLBACK runs; with a callback it resolves null, without one the call
\* has rejected already
SqliteRollback(c) ==
    /\ backend = "sqlite3"
    /\ calls[c].pc = "rollback"
    /\ store' = durable
    /\ txnOwner' = 0
    /\ calls' = [calls EXCEPT ![c] = [@ EXCEPT !.pc = "done",
                                               !.res = IF @.kind = "pending" THEN calls[c].pend ELSE @]]
    /\ UNCHANGED <<backend, durable, faults, created, life, orig, statsParity>>

\* ---- pg variant: a pooled client per call, row lock by SELECT ... FOR UPDATE
\* the row object node-postgres builds: BIGINT columns arrive as strings
PgRow(r) == [r EXCEPT !.expires_at = PgBigint(@)]

\* pool.connect() and BEGIN
PgBegin(c, i, now) ==
    /\ backend = "pg"
    /\ CanStart(c)
    /\ LET st == Started(i, now) IN
       \/ /\ CanFail
          /\ faults' = faults + 1
          /\ calls' = [calls EXCEPT ![c] = [st EXCEPT !.pc = "rollback", !.pend = Err, !.fault = TRUE]]
       \/ /\ UNCHANGED faults
          /\ calls' = [calls EXCEPT ![c] = [st EXCEPT !.pc = "select"]]
    /\ UNCHANGED <<backend, store, durable, txnOwner, created, life, orig, statsParity>>

\* SELECT ... FOR UPDATE waits while another transaction holds the row lock,
\* then reads the committed row and locks it
PgSelect(c) ==
    /\ backend = "pg"
    /\ calls[c].pc = "select"
    /\ LockHolder(calls[c].id) = {}
    /\ LET i == calls[c].id
           now == calls[c].now
           rollback(w) == [calls[c] EXCEPT !.pc = "rollback", !.pend = Unavailable(w), !.why = w,
                                           !.row = IF Has(store[i]) THEN <<PgRow(store[i][1])>> ELSE NoRow,
                                           !.locked = Has(store[i])]
       IN \/ /\ CanFail
             /\ faults' = faults + 1
             /\ calls' = [calls EXCEPT ![c] = [@ EXCEPT !.pc = "rollback", !.pend = Err, !.fault = TRUE]]
          \/ /\ UNCHANGED faults
             /\ calls' = [calls EXCEPT ![c] =
                   IF ~Has(store[i]) THEN rollback("absent")
                   ELSE LET row == PgRow(store[i][1]) IN
                        IF ExpiredPg(row, now) THEN rollback("expired")
                        ELSE IF Exhausted(row) THEN rollback("exhausted")
                        ELSE IF Limited(row) THEN [@ EXCEPT !.pc = "update", !.row = <<row>>, !.locked = TRUE]
                        ELSE [@ EXCEPT !.pc = "commit", !.row = <<row>>, !.locked = TRUE]]
    /\ UNCHANGED <<backend, store, durable, txnOwner, created, life, orig, statsParity>>

\* the UPDATE stays private to the transaction until COMMIT
PgUpdate(c) ==
    /\ backend = "pg"
    /\ calls[c].pc = "update"
    /\ \/ /\ CanFail
          /\ faults' = faults + 1
          /\ calls' = [calls EXCEPT ![c] = [@ EXCEPT !.pc = "rollback", !.pend = Err, !.fault = TRUE]]
       \/ /\ UNCHANGED faults
          /\ calls' = [calls EXCEPT ![c] = [@ EXCEPT !.pc = "commit", !.row = <<Decrement(@[1])>>]]
    /\ UNCHANGED <<backend, store, durable, txnOwner, created, life, orig, statsParity>>

\* COMMIT publishes the update and frees the lock; the client is released
PgCommit(c) ==
    /\ backend = "pg"
    /\ calls[c].pc = "commit"
    /\ LET i == calls[c].id
           row == calls[c].row[1]
       IN \/ /\ CanFail
             /\ faults' = faults + 1
             /\ calls' = [calls EXCEPT ![c] = [@ EXCEPT !.pc = "rollback", !.pend = Err, !.fault = TRUE]]
             /\ UNCHANGED <<store, durable>>
          \/ /\ UNCHANGED faults
             /\ WriteThrough(IF Limited(row)
                             THEN [store EXCEPT ![i] = <<[@[1] EXCEPT !.remaining_views = row.remaining_views]>>]
                             ELSE store)
             /\ calls' = [calls EXCEPT ![c] = [@ EXCEPT !.pc = "done", !.locked = FALSE,
                                                        !.res = PasteResult(row)]]
    /\ UNCHANGED <<backend, txnOwner, created, life, orig, statsParity>>

\* ROLLBACK (before return null, or in the catch block), then client.release()
PgRollback(c) ==
    /\ backend = "pg"
    /\ calls[c].pc = "rollback"
    /\ calls' = [calls EXCEPT ![c] = [@ EXCEPT !.pc = "done", !.locked = FALSE, !.res = calls[c].pend]]
    /\ UNCHANGED <<backend, store, durable, txnOwner, faults, created, life, orig, statsParity>>

Next ==
    \/ \E i \in Ids, content \in Contents, ttl \in Ttls, mv \in Views, t \in WallTimes, t2 \in WallTimes :
          CreatePaste(i, content, ttl, mv, t, t2) /\ UNCHANGED lastOp
    \/ \E i \in Ids : DeletePaste(i) /\ UNCHANGED lastOp
    \/ \E i \in Ids : GetPasteStats(i) /\ UNCHANGED lastOp
    \/ ListAllPastes /\ UNCHANGED lastOp
    \/ \E c \in Calls, i \in Ids, now \in Nows : FetchBetter(c, i, now) /\ UNCHANGED lastOp
    \/ \E c \in Calls, i \in Ids, now \in Nows : SqliteBegin(c, i, now) /\ UNCHANGED lastOp
    \/ \E c \in Calls : SqliteSelect(c) /\ UNCHANGED lastOp
    \/ \E c \in Calls : SqliteUpdate(c) /\ UNCHANGED lastOp
    \/ \E c \in Calls : SqliteCommit(c) /\ UNCHANGED lastOp
    \/ \E c \in Calls : SqliteRollback(c) /\ UNCHANGED lastOp
    \/ \E c \in Calls, i \in Ids, now \in Nows : PgBegin(c, i, now) /\ UNCHANGED lastOp
    \/ \E c \in Calls : PgSelect(c) /\ UNCHANGED lastOp
    \/ \E c \in Calls : PgUpdate(c) /\ UNCHANGED lastOp
    \/ \E c \in Calls : PgCommit(c) /\ UNCHANGED lastOp
    \/ \E c \in Calls : PgRollback(c) /\ UNCHANGED lastOp

Spec == Init /\ [][Next]_vars

\* ---- scheduling: a statement that was issued runs, and its callback or the
\* continuation of its await is called (the event loop starves no callback);
\* whether a statement fails is not up to the scheduler
CallSteps ==
    \/ \E c \in Calls : SqliteSelect(c) /\ faults' = faults /\ UNCHANGED lastOp
    \/ \E c \in Calls : SqliteUpdate(c) /\ faults' = faults /\ UNCHANGED lastOp
    \/ \E c \in Calls : SqliteCommit(c) /\ faults' = faults /\ UNCHANGED lastOp
    \/ \E c \in Calls : SqliteRollback(c) /\ UNCHANGED lastOp
    \/ \E c \in Calls : PgSelect(c) /\ faults' = faults /\ UNCHANGED lastOp
    \/ \E c \in Calls : PgUpdate(c) /\ faults' = faults /\ UNCHANGED lastOp
    \/ \E c \in Calls : PgCommit(c) /\ faults' = faults /\ UNCHANGED lastOp
    \/ \E c \in Calls : PgRollback(c) /\ UNCHANGED lastOp

SpecLive == Spec /\ \A c \in Calls : WF_vars(CallSteps /\ calls'[c] # calls[c])

\* ---------------------------------------------------------------- the HTTP layer
\* a header or query-string value: undefined, or a string of characters; a
\* character is a digit 0..9 or NonDigit
NonDigit == 10
NaN == [t |-> "nan", v |-> 0]

\* parseInt(s, 10) of a header or query string: the digits read up to the
\* first other character, NaN when there are none (or the value is undefined)
RECURSIVE DigitPrefix(_)
DigitPrefix(s) ==
    IF Len(s) = 0 \/ s[1] = NonDigit THEN <<>> ELSE <<s[1]>> \o DigitPrefix(Tail(s))

ParseIntJs(x) ==
    IF x.t = "string" /\ Len(DigitPrefix(x.v)) > 0 THEN Num(ParseInt(DigitPrefix(x.v))) ELSE NaN

\* nowMs(req): the x-test-now-ms header when TEST_MODE is '1' and the header
\* parses, Date.now() otherwise
NowMs(testMode, header, wall) ==
    IF testMode /\ Truthy(header) /\ ParseIntJs(header) # NaN
    THEN ParseIntJs(header).v
    ELSE wall

\* GET /api/pastes/:id, the first of the two handlers registered on the route
\* (it always answers, so the second never runs): status and error message;
\* the JSON body of a 200 is not modelled
GetPasteResponse(res) ==
    CASE res.kind = "null" -> [status |-> 404, error |-> "paste not found or unavailable"]
      [] res.kind = "error" -> [status |-> 500, error |-> "Failed to fetch paste"]
      [] OTHER -> [status |-> 200, error |-> ""]

\* ---- POST /api/pastes
\* a number of the JSON body that is no integer: n + 1/2
Fraction(n) == [t |-> "fraction", v |-> n]

\* Number.isInteger(x)
IsInteger(x) == x.t = "number"

\* content.trim(): leading and trailing white space removed
RECURSIVE TrimStart(_)
TrimStart(s) == IF Len(s) > 0 /\ s[1] = Space THEN TrimStart(Tail(s)) ELSE s

RECURSIVE TrimEnd(_)
TrimEnd(s) ==
    IF Len(s) > 0 /\ s[Len(s)] = Space THEN TrimEnd(SubSeq(s, 1, Len(s) - 1)) ELSE s

Trim(s) == TrimEnd(TrimStart(s))

\* the three tests of the handler, each answered with 400
BodyRejected(content, ttl, mv) ==
    \/ content.t # "string"
    \/ Trim(content.v) = <<>>
    \/ ttl.t # "undefined" /\ (~IsInteger(ttl) \/ ttl.v < 1)
    \/ mv.t # "undefined" /\ (~IsInteger(mv) \/ mv.v < 1)

\* the handler: validation, then createPaste under the id uuidv4() made
PostPastes(i, content, ttl, mv, t, t2) ==
    IF BodyRejected(content, ttl, mv)
    THEN UNCHANGED <<backend, store, durable, txnOwner, calls, faults, created, life, orig, statsParity>>
    ELSE CreatePaste(i, content.v, ttl, mv, t, t2)

\* what the handler answers: 400 on a rejected body, 201 when createPaste
\* resolved, 500 when it rejected
PostPastesStatus(i, content, ttl, mv) ==
    IF BodyRejected(content, ttl, mv) THEN 400
    ELSE IF created'[i] # created[i] THEN 201
    ELSE 500

\* GET /api/admin/pastes: parseInt(req.query.limit) || 100, then slice(0, limit)
LimitOf(q) == IF Truthy(ParseIntJs(q)) THEN ParseIntJs(q).v ELSE DefaultLimit
Slice(s, n) == SubSeq(s, 1, Min(n, Len(s)))
AdminPastes(order, q) == Slice([k \in 1..Len(order) |-> Meta(order[k], store[order[k]][1])], LimitOf(q))

\* ---------------------------------------------------------------- traced runs
\* Runs in which lastOp records every request.  The requests come in TEST_MODE
\* with a parseable x-test-now-ms header, Date.now() reads 0..MaxClock, no
\* statement fails, and the consume calls in flight are on distinct ids.
\* SpecTraced has the ids of Spec and every create input; SpecMulti has
\* MaxMultiIds ids, taken in order, and pastes without ttl.
ClockTimes == 0..MaxClock
TestNow == MaxSec * MsPerSec + 1
TestHeaders == {Str(Digits(TestNow))}

Request(op, i, ret, args) == [op |-> op, id |-> i, ret |-> ret, args |-> args]
Step == Request("step", 0, "none", NoArgs)

\* no other consume call was issued on id i
Apart(i) == \A d \in Calls : calls[d].id # i

\* mutant of GetPasteHandlers: the JSON handler passes the request on
GetPasteHandlersPassingOn ==
    <<[sends |-> "json", callsNext |-> TRUE], [sends |-> "html", callsNext |-> FALSE]>>

\* the handlers registered on GET /api/pastes/:id, in order of registration:
\* each takes (req, res) only and answers itself, none calls next()
GetPasteHandlers ==
    <<[sends |-> "json", callsNext |-> FALSE], [sends |-> "html", callsNext |-> FALSE]>>

\* Express runs the first handler of the route for a request, and a further
\* one only once the handler before it has returned and called next().  With
\* one request per id, the handlers run so far for the request on id i are
\* the consume calls issued on i.
HandlerDue(i) ==
    LET k == Cardinality({c \in Calls : calls[c].id = i})
    IN \/ Apart(i)
       \/ /\ k >= 1 /\ k < Len(GetPasteHandlers)
          /\ \A c \in Calls : calls[c].id = i => calls[c].pc = "done"
          /\ GetPasteHandlers[k].callsNext

\* the steps of fetchPasteWithView, called by GET /api/pastes/:id with nowMs(req)
TracedFetch(ids) ==
    \/ \E c \in Calls, i \in ids, hdr \in TestHeaders, w \in ClockTimes :
          HandlerDue(i) /\ FetchBetter(c, i, NowMs(TRUE, hdr, w)) /\ faults' = faults /\ lastOp' = Step
    \/ \E c \in Calls, i \in ids, hdr \in TestHeaders, w \in ClockTimes :
          HandlerDue(i) /\ SqliteBegin(c, i, NowMs(TRUE, hdr, w)) /\ faults' = faults /\ lastOp' = Step
    \/ \E c \in Calls : SqliteSelect(c) /\ faults' = faults /\ lastOp' = Step
    \/ \E c \in Calls : SqliteUpdate(c) /\ faults' = faults /\ lastOp' = Step
    \/ \E c \in Calls : SqliteCommit(c) /\ faults' = faults /\ lastOp' = Step
    \/ \E c \in Calls : SqliteRollback(c) /\ faults' = faults /\ lastOp' = Step
    \/ \E c \in Calls, i \in ids, hdr \in TestHeaders, w \in ClockTimes :
          HandlerDue(i) /\ PgBegin(c, i, NowMs(TRUE, hdr, w)) /\ faults' = faults /\ lastOp' = Step
    \/ \E c \in Calls : PgSelect(c) /\ faults' = faults /\ lastOp' = Step
    \/ \E c \in Calls : PgUpdate(c) /\ faults' = faults /\ lastOp' = Step
    \/ \E c \in Calls : PgCommit(c) /\ faults' = faults /\ lastOp' = Step
    \/ \E c \in Calls : PgRollback(c) /\ faults' = faults /\ lastOp' = Step

TracedList ==
    /\ ListAllPastes
    /\ faults' = faults
    /\ lastOp' = Request("list", 0, "ok", NoArgs)

NextTraced ==
    \/ \E i \in Ids, content \in Contents, ttl \in Ttls, mv \in Views,
          t \in ClockTimes, t2 \in ClockTimes, hdr \in TestHeaders :
          /\ CreatePaste(i, content, ttl, mv, t, t2)
          /\ faults' = faults
          /\ lastOp' = Request("create", i, IF created'[i] = created[i] THEN "error" ELSE "ok",
                                [NoArgs EXCEPT !.ttl = ttl, !.mv = mv, !.t = t, !.t2 = t2, !.hdr = hdr])
    \/ \E i \in Ids :
          /\ DeletePaste(i)
          /\ faults' = faults
          /\ lastOp' = Request("delete", i, IF DeleteResult(i) THEN "true" ELSE "false", NoArgs)
    \/ TracedList
    \/ TracedFetch(Ids)

SpecTraced == Init /\ [][NextTraced]_vars

\* ---------------------------------------------------------------- several pastes
MultiIds == 1..MaxMultiIds
MultiViews == {Undefined} \cup {Num(n) : n \in 0..(MaxViews - 1)}

InitMulti ==
    /\ lastOp = NoOp
    /\ backend \in Backends
    /\ store = [i \in MultiIds |-> NoRow]
    /\ durable = [i \in MultiIds |-> NoRow]
    /\ txnOwner = 0
    /\ calls = [c \in Calls |-> IdleCall]
    /\ faults = 0
    /\ created = [i \in MultiIds |-> 0]
    /\ life = [i \in MultiIds |-> "never"]
    /\ orig = [i \in MultiIds |-> NoRow]
    /\ statsParity = FALSE

\* ids are handed out in order (uuidv4() never repeats one)
NextId(i) == \A j \in MultiIds : j < i => created[j] > 0

NextMulti ==
    \/ \E i \in MultiIds, content \in Contents, mv \in MultiViews, t \in ClockTimes, t2 \in ClockTimes :
          /\ NextId(i)
          /\ CreatePaste(i, content, Undefined, mv, t, t2)
          /\ faults' = faults
          /\ lastOp' = Request("create", i, IF created'[i] = created[i] THEN "error" ELSE "ok", NoArgs)
    \/ TracedList
    \/ TracedFetch(MultiIds)

SpecMulti == InitMulti /\ [][NextMulti]_vars

\* ---------------------------------------------------------------- create requests
\* Runs in which pastes are made by POST /api/pastes: every kind of body, one
\* request at a time, each under an id never used before.
BodyContents ==
    {Undefined, Str(<<>>), Str(<<Space>>), Str(<<Letter>>), Str(<<Space, Letter>>), Str(<<NulChar>>)}
BodyNumbers == {Undefined, Null, Str(<<1>>), Fraction(1), Num(0), Num(1)}

\* uuidv4() returns an id that was never used
Unused(i) == created[i] = 0 /\ ~Has(store[i])

NextPost ==
    \/ \E i \in Ids, content \in BodyContents, ttl \in BodyNumbers, mv \in BodyNumbers,
          t \in ClockTimes, t2 \in ClockTimes :
          /\ Unused(i)
          /\ PostPastes(i, content, ttl, mv, t, t2)
          /\ faults' = faults
          /\ lastOp' = Request("post", i, PostPastesStatus(i, content, ttl, mv),
                                [NoArgs EXCEPT !.content = content, !.ttl = ttl, !.mv = mv])
    \/ \E i \in Ids :
          /\ DeletePaste(i)
          /\ faults' = faults
          /\ lastOp' = Request("delete", i, IF DeleteResult(i) THEN "true" ELSE "false", NoArgs)
    \/ TracedFetch(Ids)

SpecPost == Init /\ [][NextPost]_vars

\* ================================================================ claims
Done(c) == calls[c].res.kind # "pending"
CallsOn(i) == {c \in Calls : calls[c].pc # "idle" /\ calls[c].id = i}
Served(i) == {c \in CallsOn(i) : calls[c].res.kind = "paste"}

\* every call issued on id i has run to its end
Quiet(i) == \A c \in CallsOn(i) : calls[c].pc = "done"

\* id i was created, never deleted, and every call on it was issued after
\* its creation
Undisturbed(i) ==
    /\ life[i] = "live"
    /\ Has(orig[i])
    /\ \A c \in CallsOn(i) : calls[c].fresh /\ ~calls[c].old

\* expires_at of a row object as a number of ms
ExpiryOf(row) ==
    IF row.expires_at.t = "string" THEN ParseInt(row.expires_at.v) ELSE row.expires_at.v

\* C1: for a paste created with max_views = k and no expiry, when no statement
\* fails, the N consume calls issued on it return exactly min(N, k) pastes; if
\* N >= k one of them returns remaining_views = 0, and every call started
\* after that one returns NotAvailable.
C1_AtMostOnceConsumption ==
    \A i \in Ids :
        ( /\ faults = 0
          /\ Undisturbed(i)
          /\ Quiet(i)
          /\ Limited(orig[i][1])
          /\ IsNull(orig[i][1].expires_at) )
        => LET k == orig[i][1].remaining_views.v
               N == Cardinality(CallsOn(i))
           IN /\ Cardinality(Served(i)) = Min(N, k)
              /\ (N >= k /\ k > 0) => \E c \in Served(i) : ReturnedZero(c)
              /\ \A c \in CallsOn(i) : calls[c].late => calls[c].res.kind = "null"

\* C2: no lost update: once two or more consume calls on a view-limited paste
\* have all completed, the stored remaining_views is the created value minus
\* the number of calls that returned a paste.
C2_NoLostUpdate ==
    \A i \in Ids :
        ( /\ Cardinality(CallsOn(i)) >= 2
          /\ Undisturbed(i)
          /\ Quiet(i)
          /\ Limited(orig[i][1])
          /\ Has(durable[i]) )
        => durable[i][1].remaining_views.v
              = orig[i][1].remaining_views.v - Cardinality(Served(i))

\* C3: a stored remaining_views, when present, is never negative, in the table
\* as the connection sees it and in the committed table.
C3_NonNegativeViews ==
    \A i \in Ids :
        /\ (Has(store[i]) /\ Limited(store[i][1])) => store[i][1].remaining_views.v >= 0
        /\ (Has(durable[i]) /\ Limited(durable[i][1])) => durable[i][1].remaining_views.v >= 0

\* C3 witness: the counter was consumed down to 0 and a further consume was
\* then turned away as view-exhausted.
C3_Witness ==
    \E i \in Ids, c \in Calls, d \in Calls :
        /\ Has(durable[i]) /\ Limited(durable[i][1]) /\ durable[i][1].remaining_views.v = 0
        /\ calls[c].id = i /\ ReturnedZero(c)
        /\ calls[d].id = i /\ calls[d].res.kind = "null" /\ calls[d].why = "exhausted"

\* C4: expiry boundary: a consume at logical time now on a paste with
\* expires_at = E returns the paste only if now < E, and is turned away as
\* expired exactly when now >= E.
C4_ExpiryBoundary ==
    \A c \in Calls :
        ( /\ calls[c].res.kind \in {"paste", "null"}
          /\ Has(calls[c].row)
          /\ Truthy(calls[c].row[1].expires_at) )
        => /\ calls[c].res.kind = "paste" => calls[c].now < ExpiryOf(calls[c].row[1])
           /\ calls[c].why = "expired" <=> calls[c].now >= ExpiryOf(calls[c].row[1])

\* C5: non-resurrection: once a consume on an id has returned NotAvailable
\* because the paste was expired or view-exhausted, no consume started later
\* on that id returns a paste, whatever its now, unless the id was created
\* again in between.
C5_NonResurrection ==
    \A c \in Calls :
        (calls[c].afterNA /\ ~calls[c].old) => calls[c].res.kind # "paste"

\* C6: a delete that has returned true is not undone: the record stays absent
\* for every later stats or consume until the id is created again, also when
\* no statement fails.
C6_DeleteNotUndone ==
    faults = 0 => \A i \in Ids : life[i] = "deleted" => StatsResult(i).kind = "null"

\* C7: create durability (sqlite3 and pg variants, which the claim is about):
\* once create has returned successfully the record is visible to stats and
\* consume until a delete succeeds, also when no statement fails.
C7_CreateDurable ==
    (backend \in {"sqlite3", "pg"} /\ faults = 0)
        => \A i \in Ids : life[i] = "live" => StatsResult(i).kind = "meta"

\* C8: rollback on failure: a consume call one of whose statements failed
\* rejects, and the record is as it was before the call.
C8_FailureRejectsAndRollsBack ==
    \A c \in Calls :
        (calls[c].fault /\ calls[c].pc = "done")
        => /\ calls[c].res.kind = "error"
           /\ (Undisturbed(calls[c].id) /\ CallsOn(calls[c].id) = {c})
                 => (store[calls[c].id] = orig[calls[c].id] /\ durable[calls[c].id] = orig[calls[c].id])

\* C9: result consistency: a paste returned with the decremented counter v
\* means that decrement is committed: the committed counter is v, or lower by
\* later committed consumes.
C9_ResultCommitted ==
    \A c \in Calls :
        ( /\ calls[c].res.kind = "paste"
          /\ IsNum(calls[c].res.remaining_views)
          /\ calls[c].fresh /\ ~calls[c].old
          /\ life[calls[c].id] = "live"
          /\ Has(durable[calls[c].id]) )
        => durable[calls[c].id][1].remaining_views.v <= calls[c].res.remaining_views.v

\* C10: stats is read-only: a getPasteStats call changes no record, neither in
\* the table as the connection sees it nor in the committed table, wherever it
\* falls among the steps of consume calls.
C10_StatsReadOnly ==
    [][ statsParity' # statsParity => (store' = store /\ durable' = durable) ]_vars

\* C10 witness: stats has run, a consume has returned a decremented counter
\* and another consume is in the middle of its transaction.
C10_Witness ==
    /\ statsParity
    /\ \E c \in Calls : calls[c].res.kind = "paste" /\ IsNum(calls[c].res.remaining_views)
    /\ \E d \in Calls : calls[d].pc \in {"select", "update", "commit"}

\* C11: unlimited views: for a paste created without max_views and without
\* ttl, when no statement fails, every completed consume call issued on it
\* returns the paste with remaining_views null, and its stored remaining_views
\* stays null.
C11_UnlimitedViews ==
    \A i \in Ids :
        ( /\ faults = 0
          /\ Undisturbed(i)
          /\ IsNull(orig[i][1].remaining_views)
          /\ IsNull(orig[i][1].expires_at) )
        => /\ \A c \in CallsOn(i) :
                 calls[c].pc = "done"
                    => (calls[c].res.kind = "paste" /\ IsNull(calls[c].res.remaining_views))
           /\ Has(store[i]) => IsNull(store[i][1].remaining_views)
           /\ Has(durable[i]) => IsNull(durable[i][1].remaining_views)

\* C12: delete returns true exactly when a record of that id existed, and the
\* record is then gone whatever its expiry and view state; delete of an absent
\* id returns false and changes nothing; and once a delete has returned true,
\* stats finds no record of the id (until it is created again).
C12_DeleteContract ==
    [][ \A i \in Ids :
          /\ (lastOp'.op = "delete" /\ lastOp'.id = i)
                => /\ lastOp'.ret \in {"true", "false"}
                   /\ lastOp'.ret = "true" <=> Has(store[i])
                   /\ ~Has(store'[i])
                   /\ lastOp'.ret = "false" => (store' = store /\ durable' = durable)
          /\ life'[i] = "deleted" => ~Has(store'[i])
      ]_vars

\* C13: dead pastes stay visible: a step other than a delete never removes or
\* alters a record that is view-exhausted, or expired at the logical time of
\* the consume call taking the step, so stats and list keep returning it with
\* its field values.
C13_DeadStayVisible ==
    [][ \A i \in Ids :
          ( /\ Has(store[i])
            /\ lastOp'.op # "delete"
            /\ \/ Exhausted(store[i][1])
               \/ \E c \in Calls : /\ calls'[c] # calls[c]
                                    /\ calls'[c].id = i
                                    /\ Truthy(store[i][1].expires_at)
                                    /\ calls'[c].now >= store[i][1].expires_at.v )
          => store'[i] = store[i]
      ]_vars

\* the counters the completed consume calls on id i returned
ReturnedViews(i) == {calls[c].res.remaining_views.v : c \in Served(i)}

\* C14: post-decrement results: for a paste created with max_views = k and no
\* ttl, when no statement fails and the N consume calls issued on it have all
\* completed, the successful ones returned pairwise distinct counters, the
\* values k-1 down to k-min(N,k); with N >= k exactly {k-1, ..., 0}.
C14_PostDecrementResults ==
    \A i \in Ids :
        ( /\ faults = 0
          /\ Undisturbed(i)
          /\ Quiet(i)
          /\ Limited(orig[i][1])
          /\ IsNull(orig[i][1].expires_at) )
        => LET k == orig[i][1].remaining_views.v
               N == Cardinality(CallsOn(i))
           IN /\ Cardinality(ReturnedViews(i)) = Cardinality(Served(i))
              /\ ReturnedViews(i) = (k - Min(N, k))..(k - 1)

\* the paste of id i was consumable whenever call c could have read it:
\* created before the call, never deleted, no ttl, views left for the call
Consumable(c, i) ==
    /\ calls[c].fresh /\ ~calls[c].old
    /\ life[i] = "live" /\ Has(orig[i])
    /\ IsNull(orig[i][1].expires_at)
    /\ ~Exhausted(orig[i][1])

\* C15: independence of distinct ids: a completed consume call on id A, with
\* another consume call issued on a different id B, has not been rejected, and
\* has returned its paste when that paste was consumable.
C15_DistinctIdsIndependent ==
    \A c \in Calls, d \in Calls :
        ( /\ calls[c].pc = "done"
          /\ calls[d].pc # "idle"
          /\ calls[c].id # calls[d].id )
        => /\ calls[c].res.kind # "error"
           /\ Consumable(c, calls[c].id) => calls[c].res.kind = "paste"

\* C16: a create on an id that has a record fails with an error and leaves
\* the record as it was, in the table and in the committed table; an id never
\* has more than one record.
C16_DuplicateKey ==
    [][ \A i \in Ids :
          /\ (lastOp'.op = "create" /\ lastOp'.id = i /\ Has(store[i]))
                => /\ lastOp'.ret = "error"
                   /\ store' = store
                   /\ durable' = durable
          /\ Len(store'[i]) <= 1 /\ Len(durable'[i]) <= 1
      ]_vars

\* C16 witness: a create was just refused on an id whose record is still there,
\* with the fields its first create gave it.
C16_Witness ==
    /\ lastOp.op = "create" /\ lastOp.ret = "error"
    /\ Has(store[lastOp.id])
    /\ store[lastOp.id] = orig[lastOp.id]

\* C17: create field seeding: the record a successful create has just stored
\* has created_at = the creation time, expires_at = created_at +
\* ttl_seconds * 1000 when ttl_seconds is given and null otherwise, and
\* remaining_views = max_views when max_views is given (0 included) and null
\* otherwise.
C17_CreateSeeding ==
    (lastOp.op = "create" /\ lastOp.ret = "ok")
        => LET a == lastOp.args
               r == store[lastOp.id][1]
           IN /\ r.created_at \in {a.t, a.t2}
              /\ r.expires_at = IF IsNum(a.ttl) THEN Num(r.created_at + a.ttl.v * MsPerSec) ELSE Null
              /\ r.remaining_views = IF IsNum(a.mv) THEN a.mv ELSE Null

\* C18: indistinguishable unavailability: the consume calls that found no
\* record, an expired record or a view-exhausted record all resolved the same
\* value, null, and the API answers them with the same 404 body.
C18_SameUnavailable ==
    \A c \in Calls, d \in Calls :
        ( /\ calls[c].pc = "done" /\ calls[c].why \in {"absent", "expired", "exhausted"}
          /\ calls[d].pc = "done" /\ calls[d].why \in {"absent", "expired", "exhausted"} )
        => /\ calls[c].res = NotAvailable
           /\ calls[c].res = calls[d].res
           /\ GetPasteResponse(calls[c].res) = GetPasteResponse(calls[d].res)
           /\ GetPasteResponse(calls[c].res).status = 404

\* C18 witness: one call found no record, another found the record expired or
\* view-exhausted, and both have answered.
C18_Witness ==
    \E c \in Calls, d \in Calls :
        /\ calls[c].pc = "done" /\ calls[c].why = "absent" /\ calls[c].res.kind = "null"
        /\ calls[d].pc = "done" /\ calls[d].why \in {"expired", "exhausted"} /\ calls[d].res.kind = "null"

\* C19: deterministic test clock: with TEST_MODE=1 and a parseable
\* x-test-now-ms header the request's current time is the header value, without
\* TEST_MODE it is the wall clock; and the expires_at a create request has just
\* stored is its header time + ttl_seconds * 1000, whatever Date.now() read.
C19_TestClock ==
    /\ \A h \in TestHeaders, w \in ClockTimes :
          /\ NowMs(TRUE, h, w) = ParseInt(h.v)
          /\ NowMs(FALSE, h, w) = w
    /\ (lastOp.op = "create" /\ lastOp.ret = "ok" /\ IsNum(lastOp.args.ttl))
          => LET a == lastOp.args
             IN store[lastOp.id][1].expires_at = Num(NowMs(TRUE, a.hdr, a.t) + a.ttl.v * MsPerSec)

\* the ids that have a record
Stored == {i \in DOMAIN store : Has(store[i])}

\* the ?limit= values that are positive integers, and no ?limit= at all
PositiveLimits == {Undefined} \cup {Str(Digits(n)) : n \in 1..MaxLimit}
LimitAsked(q) == IF q = Undefined THEN DefaultLimit ELSE ParseInt(q.v)

\* C20: list: for every positive limit (100 without one) the admin list is the
\* first limit entries of the stored records in created_at descending order:
\* min(limit, number of records) entries, each the metadata of a distinct
\* stored record whatever its expiry and views, no record left out that is
\* more recent than a listed one; and a list request changes no record.
C20_ListAll ==
    [][ /\ lastOp'.op = "list" => (store' = store /\ durable' = durable)
        /\ \A q \in PositiveLimits, order \in ListResults :
              LET out == AdminPastes(order, q)
              IN /\ Len(out) = Min(LimitAsked(q), Cardinality(Stored))
                 /\ \A k \in 1..Len(out) :
                       /\ out[k].id \in Stored
                       /\ out[k].created_at = store[out[k].id][1].created_at
                       /\ out[k].expires_at = store[out[k].id][1].expires_at
                       /\ out[k].remaining_views = store[out[k].id][1].remaining_views
                       /\ out[k].content_length = Len(store[out[k].id][1].content)
                 /\ \A j, k \in 1..Len(out) :
                       j < k => (out[j].id # out[k].id /\ out[j].created_at >= out[k].created_at)
                 /\ \A i \in Stored, k \in 1..Len(out) :
                       (\A j \in 1..Len(out) : out[j].id # i)
                          => out[k].created_at >= store[i][1].created_at
      ]_vars

\* C20 witness: a list request was just served with two records stored, of
\* different created_at, one of them view-exhausted.
C20_Witness ==
    /\ lastOp.op = "list"
    /\ \E i \in Stored, j \in Stored :
          /\ store[i][1].created_at < store[j][1].created_at
          /\ Exhausted(store[i][1])

\* the request bodies the boundary has to reject, in the words of the
\* contract: content that is not a string with a character other than white
\* space, or a ttl_seconds / max_views that is given and is not an integer >= 1
NonBlankString(x) == x.t = "string" /\ \E k \in 1..Len(x.v) : x.v[k] # Space
PositiveInteger(x) == x.t = "number" /\ x.v >= 1
Present(x) == x.t # "undefined"
InvalidArgument(a) ==
    \/ ~NonBlankString(a.content)
    \/ Present(a.ttl) /\ ~PositiveInteger(a.ttl)
    \/ Present(a.mv) /\ ~PositiveInteger(a.mv)

\* C21: a create request is answered 400 and inserts no record when content
\* is not a non-empty, non-whitespace string or when ttl_seconds or max_views
\* is present but not a positive integer; every other create request inserts
\* exactly one record.
C21_CreateValidation ==
    [][ lastOp'.op = "post" =>
          IF InvalidArgument(lastOp'.args)
          THEN lastOp'.ret = 400 /\ store' = store /\ durable' = durable
          ELSE /\ lastOp'.ret # 400
               /\ Cardinality({i \in Ids : Has(store'[i])}) = Cardinality(Stored) + 1
      ]_vars

\* the step just taken belongs to consume call c on id i, and c returns a
\* paste: it has resolved one, or (sqlite3) only its COMMIT is left, whose
\* callback resolves the row
ReturnsPaste(c, i) ==
    /\ calls'[c] # calls[c]
    /\ calls'[c].id = i
    /\ \/ calls'[c].pc = "done" /\ calls'[c].res.kind = "paste"
       \/ backend = "sqlite3" /\ calls'[c].pc = "commit"

C23_OneViewPerFetch ==
    \A i \in Ids :
        /\ Cardinality(CallsOn(i)) <= 1
        /\ \A c \in CallsOn(i) :
              ( /\ calls[c].pc = "done" /\ calls[c].res.kind = "paste"
                /\ Undisturbed(i) /\ Limited(orig[i][1]) /\ Has(durable[i]) )
              => /\ durable[i][1].remaining_views.v = orig[i][1].remaining_views.v - 1
                 /\ store[i][1].remaining_views.v = orig[i][1].remaining_views.v - 1

\* C23 witness: a request has been answered with a paste created with views to
\* spare, and the record holds one view less.
C23_Witness ==
    \E i \in Ids, c \in Calls :
        /\ calls[c].id = i /\ calls[c].pc = "done" /\ calls[c].res.kind = "paste"
        /\ GetPasteResponse(calls[c].res).status = 200
        /\ Undisturbed(i) /\ Limited(orig[i][1])
        /\ orig[i][1].remaining_views.v >= 2
        /\ Has(durable[i])
        /\ durable[i][1].remaining_views.v = orig[i][1].remaining_views.v - 1

\* row r2 is row r1 with one view less
OneViewLess(r1, r2) ==
    /\ Limited(r1)
    /\ r2 = Decrement(r1)

\* C24: field immutability: while a record is stored its content, created_at
\* and expires_at never change (its id is its key), in the table as the
\* connection sees it and in the committed table; and when no statement
\* fails, a step that changes a record either removes it or lowers its
\* remaining_views by 1 in a consume call that returns the paste.
C24_FieldsImmutable ==
    [][ \A i \in Ids :
          /\ (Has(store[i]) /\ Has(store'[i]) /\ created'[i] <= 1)
                => /\ store'[i][1].content = store[i][1].content
                   /\ store'[i][1].created_at = store[i][1].created_at
                   /\ store'[i][1].expires_at = store[i][1].expires_at
          /\ (Has(durable[i]) /\ Has(durable'[i]) /\ created'[i] <= 1)
                => /\ durable'[i][1].content = durable[i][1].content
                   /\ durable'[i][1].created_at = durable[i][1].created_at
                   /\ durable'[i][1].expires_at = durable[i][1].expires_at
          /\ (Has(store[i]) /\ store'[i] # store[i] /\ created'[i] <= 1 /\ faults' = 0)
                => \/ ~Has(store'[i])
                   \/ /\ OneViewLess(store[i][1], store'[i][1])
                      /\ \E c \in Calls : ReturnsPaste(c, i)
          /\ (Has(durable[i]) /\ durable'[i] # durable[i] /\ created'[i] <= 1)
                => \/ ~Has(durable'[i])
                   \/ /\ OneViewLess(durable[i][1], durable'[i][1])
                      /\ \E c \in Calls : ReturnsPaste(c, i)
      ]_vars

\* C24 witness: a paste created with a ttl and views has been consumed and
\* asked for its stats; its record holds one view less and the content,
\* created_at and expires_at of its creation.
C24_Witness ==
    \E i \in Ids :
        /\ statsParity
        /\ life[i] = "live" /\ Has(orig[i]) /\ Has(store[i]) /\ durable[i] = store[i]
        /\ Truthy(orig[i][1].expires_at)
        /\ OneViewLess(orig[i][1], store[i][1])
        /\ \E c \in Served(i) : calls[c].res.remaining_views = store[i][1].remaining_views

\* every consume call that was issued runs to its end (under SpecLive)
EveryCallEnds == \A c \in Calls : (calls[c].pc # "idle") ~> (calls[c].pc = "done")

\* C25: transaction closure: once a consume call has handed its outcome to
\* its caller (paste, NotAvailable or error), the transaction it opened is
\* over: it has no statement left to run, the shared sqlite3 connection is not
\* in the transaction the call began, and (Postgres) the call's client holds
\* no row lock and is released.
C25_TransactionClosure ==
    \A c \in Calls :
        Done(c) => /\ calls[c].pc = "done"
                   /\ txnOwner # c
                   /\ ~calls[c].locked

====
